---- MODULE Spec2Model ----
(***************************************************************************)
(* Model of the waste-classification application:                          *)
(*   - the POST handler of src/app/api/analyze-image/route.tsx with its    *)
(*     two provider adapters and the response normalizer parseAIResponse;  *)
(*   - the Home component of src/app/page.tsx (capture, upload, analyse).  *)
(* Strings that the code inspects are sequences of one-character strings,  *)
(* so that the regular expressions, trim(), toLowerCase() and includes()   *)
(* are computed character by character.                                    *)
(***************************************************************************)
EXTENDS Integers, Sequences, FiniteSets, TLC

VARIABLES
  raw, nChunks, parsed,                                  \* normalizer harness
  spc, req, modelToUse, calls, envelope, responses, escaped,  \* POST handler
  capturedImage, isAnalyzing, analysisResult,            \* Home component
  isUsingCamera, error, inflight, reads

parseVars == <<raw, nChunks, parsed>>
serverVars == <<spc, req, modelToUse, calls, envelope, responses, escaped>>
frontVars == <<capturedImage, isAnalyzing, analysisResult, isUsingCamera, error,
               inflight, reads>>
vars == <<parseVars, serverVars, frontVars>>

----------------------------------------------------------------------------
(* Bounds *)

\* number of text fragments a raw model response is assembled from
MaxChunks == 3
\* number of text fragments in a provider reply seen by the POST handler
MaxReplyChunks == 2
\* number of FileReader loads that may be outstanding in the front-end
MaxReads == 2

----------------------------------------------------------------------------
(* Characters and JavaScript string primitives *)

LowerMap == [A |-> "a", B |-> "b", C |-> "c", D |-> "d", E |-> "e", F |-> "f", G |-> "g", H |-> "h", I |-> "i", J |-> "j", K |-> "k", L |-> "l", M |-> "m", N |-> "n", O |-> "o", P |-> "p", Q |-> "q", R |-> "r", S |-> "s", T |-> "t", U |-> "u", V |-> "v", W |-> "w", X |-> "x", Y |-> "y", Z |-> "z"]

toLowerChar(c) == IF c \in DOMAIN LowerMap THEN LowerMap[c] ELSE c

\* String.prototype.toLowerCase
toLowerCase(s) == [k \in 1..Len(s) |-> toLowerChar(s[k])]

\* the regex class \s, over the characters that occur
IsSpace(c) == c \in {" ", "\n"}

\* what "." refuses to match when the s flag is absent
IsLineTerminator(c) == c = "\n"

Min(S) == CHOOSE x \in S : \A y \in S : x <= y
Max(S) == CHOOSE x \in S : \A y \in S : x >= y

\* String.prototype.trim
trim(s) ==
  LET idx == {k \in 1..Len(s) : ~IsSpace(s[k])}
  IN IF idx = {} THEN <<>> ELSE SubSeq(s, Min(idx), Max(idx))

\* String.prototype.includes, case-sensitive
includes(s, lit) ==
  \E i \in 1..(Len(s) - Len(lit) + 1) : \A k \in 1..Len(lit) : s[i + k - 1] = lit[k]

----------------------------------------------------------------------------
(* Literals of route.tsx *)

DefaultItem == <<"U", "n", "i", "d", "e", "n", "t", "i", "f", "i", "e", "d", " ", "i", "t", "e", "m">>
DefaultExplanation == <<"U", "n", "a", "b", "l", "e", " ", "t", "o", " ", "d", "e", "t", "e", "r", "m", "i", "n", "e", " ", "p", "r", "o", "p", "e", "r", " ", "d", "i", "s", "p", "o", "s", "a", "l", " ", "m", "e", "t", "h", "o", "d", ".">>
KwItem == <<"i", "t", "e", "m">>
KwCategory == <<"c", "a", "t", "e", "g", "o", "r", "y">>
KwExplanation == <<"e", "x", "p", "l", "a", "n", "a", "t", "i", "o", "n">>
WordRecycle == <<"r", "e", "c", "y", "c", "l", "e">>
WordCompost == <<"c", "o", "m", "p", "o", "s", "t">>
WordTrash == <<"t", "r", "a", "s", "h">>

\* the alternation (recycle|compost|trash)
CategoryWords == {WordRecycle, WordCompost, WordTrash}

----------------------------------------------------------------------------
(* The three regular expressions of parseAIResponse.  A match is the       *)
(* leftmost start position at which the pattern succeeds; the lazy group   *)
(* (.*?) ends at the first position that lets the rest of the pattern      *)
(* match.                                                                  *)

NoMatch == [found |-> FALSE, group |-> <<>>]

\* a lower-case literal matched case-insensitively (flag i) at position i
HasLiteralAt(s, i, lit) ==
  /\ i + Len(lit) - 1 <= Len(s)
  /\ \A k \in 1..Len(lit) : toLowerChar(s[i + k - 1]) = lit[k]

\* \[KEYWORD
FieldHead(s, i, kw) == s[i] = "[" /\ HasLiteralAt(s, i + 1, kw)

\* :?  (greedy: the colon is taken when it is there)
AfterColon(s, i, kw) ==
  LET p == i + 1 + Len(kw)
  IN IF p <= Len(s) /\ s[p] = ":" THEN p + 1 ELSE p

\* \s*  (greedy)
SkipSpaces(s, p) ==
  CHOOSE q \in p..(Len(s) + 1) :
    /\ \A k \in p..(q - 1) : IsSpace(s[k])
    /\ (q = Len(s) + 1 \/ ~IsSpace(s[q]))

ContentStart(s, i, kw) == SkipSpaces(s, AfterColon(s, i, kw))

\* positions of a "]" that can close (.*?) of /\[ITEM:?\s*(.*?)\]/i
ItemEnds(s, i) ==
  LET p == ContentStart(s, i, KwItem)
  IN {j \in p..Len(s) : s[j] = "]" /\ \A k \in p..(j - 1) : ~IsLineTerminator(s[k])}

\* response.match(/\[ITEM:?\s*(.*?)\]/i)
itemMatch(s) ==
  LET starts == {i \in 1..Len(s) : FieldHead(s, i, KwItem) /\ ItemEnds(s, i) # {}}
  IN IF starts = {} THEN NoMatch
     ELSE LET i == Min(starts)
              p == ContentStart(s, i, KwItem)
          IN [found |-> TRUE, group |-> SubSeq(s, p, Min(ItemEnds(s, i)) - 1)]

\* the alternatives of (recycle|compost|trash) that match at the content and
\* are followed at once by "]"
CategoryWordsAt(s, i) ==
  LET p == ContentStart(s, i, KwCategory)
  IN {w \in CategoryWords :
        /\ HasLiteralAt(s, p, w)
        /\ p + Len(w) <= Len(s)
        /\ s[p + Len(w)] = "]"}

\* response.match(/\[CATEGORY:?\s*(recycle|compost|trash)\]/i)
categoryMatch(s) ==
  LET starts == {i \in 1..Len(s) : FieldHead(s, i, KwCategory) /\ CategoryWordsAt(s, i) # {}}
  IN IF starts = {} THEN NoMatch
     ELSE LET i == Min(starts)
              p == ContentStart(s, i, KwCategory)
              w == CHOOSE x \in CategoryWordsAt(s, i) : TRUE
          IN [found |-> TRUE, group |-> SubSeq(s, p, p + Len(w) - 1)]

\* positions of a "]" that can close (.*?) of /\[EXPLANATION:?\s*(.*?)\](?:\s|$)/is
ExplanationEnds(s, i) ==
  LET p == ContentStart(s, i, KwExplanation)
  IN {j \in p..Len(s) : s[j] = "]" /\ (j = Len(s) \/ IsSpace(s[j + 1]))}

\* response.match(/\[EXPLANATION:?\s*(.*?)\](?:\s|$)/is)
explanationMatch(s) ==
  LET starts == {i \in 1..Len(s) :
                   FieldHead(s, i, KwExplanation) /\ ExplanationEnds(s, i) # {}}
  IN IF starts = {} THEN NoMatch
     ELSE LET i == Min(starts)
              p == ContentStart(s, i, KwExplanation)
          IN [found |-> TRUE, group |-> SubSeq(s, p, Min(ExplanationEnds(s, i)) - 1)]

\* variant: `if (m)`, the group is not looked at
TruthyMatchOnly(m) == m.found

\* `m && m[1]`: a match whose first group is a non-empty string
Truthy(m) == m.found /\ m.group # <<>>

----------------------------------------------------------------------------
(* parseAIResponse *)

\* variant: the keyword scan yields to a category the bracketed field gave
fallbackCategoryUnlessBracketed(response, category) ==
  IF category # WordTrash THEN category
  ELSE IF includes(toLowerCase(response), WordRecycle) THEN WordRecycle
  ELSE IF includes(toLowerCase(response), WordCompost) THEN WordCompost
  ELSE category

\* the keyword scan of the else branch, applied to the category found so far
fallbackCategory(response, category) ==
  IF includes(toLowerCase(response), WordRecycle) THEN WordRecycle
  ELSE IF includes(toLowerCase(response), WordCompost) THEN WordCompost
  ELSE category

\* variant: the group is stored as the model wrote it
categoryOfAsWritten(cm) == cm.group

\* categoryMatch[1].toLowerCase()
categoryOf(cm) == toLowerCase(cm.group)

\* variant: the keyword scan also runs when the explanation field matched
parseAIResponseAlwaysScan(response) ==
  LET im == itemMatch(response)
      cm == categoryMatch(response)
      em == explanationMatch(response)
      item == IF Truthy(im) THEN trim(im.group) ELSE DefaultItem
      category == IF Truthy(cm) THEN categoryOf(cm) ELSE WordTrash
  IN [item |-> item, category |-> fallbackCategory(response, category),
      explanation |-> IF Truthy(em) THEN trim(em.group) ELSE trim(response),
      color |-> "bg-slate-600"]

parseAIResponse(response) ==
  LET im == itemMatch(response)
      cm == categoryMatch(response)
      em == explanationMatch(response)
      item == IF Truthy(im) THEN trim(im.group) ELSE DefaultItem
      category == IF Truthy(cm) THEN categoryOf(cm) ELSE WordTrash
  IN IF Truthy(em)
     THEN [item |-> item, category |-> category,
           explanation |-> trim(em.group), color |-> "bg-slate-600"]
     ELSE [item |-> item, category |-> fallbackCategory(response, category),
           explanation |-> trim(response), color |-> "bg-slate-600"]

----------------------------------------------------------------------------
(* Raw model responses: concatenations of fragments.  The fragments follow *)
(* the format the prompt asks for, and the ways a model departs from it.   *)

ChunkItem == <<"[", "I", "T", "E", "M", ":", " ", "c", "a", "n", "]">>
ChunkItemEmpty == <<"[", "I", "T", "E", "M", ":", " ", "]">>
ChunkItemOpen == <<"[", "I", "t", "e", "m", " ", "c", "a", "n">>
ChunkCatRecycle == <<"[", "C", "A", "T", "E", "G", "O", "R", "Y", ":", " ", "r", "e", "c", "y", "c", "l", "e", "]">>
ChunkCatCompost == <<"[", "C", "A", "T", "E", "G", "O", "R", "Y", ":", "c", "o", "m", "p", "o", "s", "t", "]">>
ChunkCatTrash == <<"[", "c", "a", "t", "e", "g", "o", "r", "y", " ", "T", "r", "a", "s", "h", "]">>
ChunkCatOther == <<"[", "C", "A", "T", "E", "G", "O", "R", "Y", ":", " ", "g", "l", "a", "s", "s", "]">>
ChunkExpl == <<"[", "E", "X", "P", "L", "A", "N", "A", "T", "I", "O", "N", ":", " ", "t", "i", "n", "]">>
ChunkExplEmpty == <<"[", "E", "X", "P", "L", "A", "N", "A", "T", "I", "O", "N", ":", " ", "]">>
ChunkExplKeyword == <<"[", "E", "x", "p", "l", "a", "n", "a", "t", "i", "o", "n", ":", "\n", "R", "e", "c", "y", "c", "l", "e", " ", "i", "t", " ", "]">>
TextOther == <<"p", "e", "e", "l">>
TextRecycle == <<"r", "e", "c", "y", "c", "l", "e", "d">>
TextCompost == <<"C", "o", "m", "p", "o", "s", "t">>
TextSpace == <<" ">>
TextNewline == <<"\n">>
TextClose == <<"]">>
TextDot == <<".">>

Chunks ==
  {ChunkItem, ChunkItemEmpty, ChunkItemOpen,
   ChunkCatRecycle, ChunkCatCompost, ChunkCatTrash, ChunkCatOther,
   ChunkExpl, ChunkExplEmpty, ChunkExplKeyword,
   TextOther, TextRecycle, TextCompost, TextSpace, TextNewline, TextClose, TextDot}

----------------------------------------------------------------------------
(* Normalizer harness: a raw response is assembled, then normalized.       *)

ParseInit ==
  /\ raw = <<>>
  /\ nChunks = 0
  /\ parsed = <<>>

\* the model's text grows by one fragment
AppendChunk ==
  /\ parsed = <<>>
  /\ nChunks < MaxChunks
  /\ \E c \in Chunks : raw' = raw \o c
  /\ nChunks' = nChunks + 1
  /\ UNCHANGED parsed
  /\ UNCHANGED <<serverVars, frontVars>>

\* const structured = parseAIResponse(aiResponse)
Normalize ==
  /\ parsed = <<>>
  /\ parsed' = <<parseAIResponse(raw)>>
  /\ UNCHANGED <<raw, nChunks>>
  /\ UNCHANGED <<serverVars, frontVars>>

ParseNext == AppendChunk \/ Normalize

----------------------------------------------------------------------------
(* POST /api/analyze-image *)

\* const VISION_MODEL = 'GROQ'
VISION_MODEL == "GROQ"

JpegDataUriPrefix == <<"d", "a", "t", "a", ":", "i", "m", "a", "g", "e", "/", "j", "p", "e", "g", ";", "b", "a", "s", "e", "6", "4", ",">>
BareImage == <<"Q", "U", "J", "D">>
DataUriImage == <<"d", "a", "t", "a", ":", "i", "m", "a", "g", "e", "/", "p", "n", "g", ";", "b", "a", "s", "e", "6", "4", ",", "Q", "U", "J", "D">>

\* values of body.image and body.model that a client may send
ImageValues == {<<>>, BareImage, DataUriImage}
ModelValues == {"", "GROQ", "GEMINI", "TOGETHER"}

\* a JSON object: `has` names the properties it holds
ObjectBody(D, img, mdl) ==
  [has |-> D,
   image |-> IF "image" \in D THEN img ELSE <<>>,
   model |-> IF "model" \in D THEN mdl ELSE ""]

\* JSON objects with any subset of the two properties
Bodies ==
  {ObjectBody(D, img, mdl) :
     D \in SUBSET {"image", "model"}, img \in ImageValues, mdl \in ModelValues}

\* what the client sends: a JSON object, the JSON value null, or a body that
\* request.json() cannot parse
Requests ==
  {[kind |-> "object", body |-> b] : b \in Bodies}
    \cup {[kind |-> "null"], [kind |-> "malformed"]}

\* a provider's answer text, as the handler may receive it
RECURSIVE RawResponses(_)
RawResponses(n) ==
  IF n = 0 THEN {<<>>}
  ELSE LET S == RawResponses(n - 1)
       IN S \cup {r \o c : r \in S, c \in Chunks}

Replies == RawResponses(MaxReplyChunks)

\* errors are Error objects; only their message is observable
SyntaxErrorJson == [message |-> "Unexpected end of JSON input"]
TypeErrorNullBody == [message |-> "Cannot read properties of null (reading 'image')"]
TypeErrorNoChoices == [message |-> "Cannot read properties of undefined (reading 'message')"]
ProviderError == [message |-> "provider request failed"]

\* variant: only an absent property counts as missing
missingImageAbsentOnly(body) == "image" \notin body.has

\* !body.image
missingImage(body) == "image" \notin body.has \/ body.image = <<>>

\* body.model || VISION_MODEL
resolveModel(body) ==
  IF "model" \in body.has /\ body.model # "" THEN body.model ELSE VISION_MODEL

\* if (modelToUse === 'GROQ') processWithGroq else processWithGemini
providerFor(m) == IF m = "GROQ" THEN "GROQ" ELSE "GEMINI"

\* base64Image.split(',')[1]
splitSecond(s) ==
  LET commas == {k \in 1..Len(s) : s[k] = ","}
      a == Min(commas)
      later == {k \in commas : k > a}
      b == IF later = {} THEN Len(s) + 1 ELSE Min(later)
  IN SubSeq(s, a + 1, b - 1)

\* removal of the data URI prefix in both adapters; the branch for
\* startsWith('data:') needs "base64," and so never matches a string
\* without a comma
imageData(base64Image) ==
  IF includes(base64Image, <<",">>) THEN splitSecond(base64Image) ELSE base64Image

\* the payload each adapter sends
groqCall(base64Image) ==
  [provider |-> "GROQ", image |-> JpegDataUriPrefix \o imageData(base64Image)]
geminiCall(base64Image) ==
  [provider |-> "GEMINI", image |-> imageData(base64Image)]

\* variant: the colour field parseAIResponse initialised is passed on
colorOfStructured(structured) == structured.color

\* the colour chosen in POST from structured.category
colorOf(structured) ==
  IF structured.category = WordRecycle THEN "bg-emerald-500"
  ELSE IF structured.category = WordCompost THEN "bg-amber-700"
  ELSE "bg-slate-600"

\* NextResponse.json({item, category, explanation, color, model})
okResponse(aiResponse, m) ==
  LET structured == parseAIResponse(aiResponse)
  IN [status |-> 200,
      body |-> [item |-> structured.item,
                category |-> structured.category,
                explanation |-> structured.explanation,
                color |-> colorOf(structured),
                model |-> m]]

badRequest == [status |-> 400, body |-> [error |-> "No image data provided"]]

\* variant: the catch block logs and rethrows
catchErrorRethrow(e) == [kind |-> "throw", error |-> e]

\* the catch block of POST
catchError(e) ==
  [kind |-> "response",
   response |-> [status |-> 500,
                 body |-> [error |-> "Failed to analyze image", message |-> e.message]]]

\* the handler's promise settles: a response is sent, or an exception leaves POST
Settle(outcome) ==
  /\ spc' = "done"
  /\ IF outcome.kind = "response"
     THEN responses' = Append(responses, outcome.response) /\ UNCHANGED escaped
     ELSE escaped' = Append(escaped, outcome.error) /\ UNCHANGED responses

ServerInit ==
  /\ spc = "idle"
  /\ req = [kind |-> "none"]
  /\ modelToUse = "none"
  /\ calls = <<>>
  /\ envelope = [kind |-> "none"]
  /\ responses = <<>>
  /\ escaped = <<>>

\* a request arrives; POST starts and awaits request.json()
Receive ==
  /\ spc = "idle"
  /\ \E r \in Requests : req' = r
  /\ spc' = "json"
  /\ UNCHANGED <<modelToUse, calls, envelope, responses, escaped>>
  /\ UNCHANGED <<parseVars, frontVars>>

\* request.json() rejects
JsonRejected ==
  /\ spc = "json"
  /\ req.kind = "malformed"
  /\ Settle(catchError(SyntaxErrorJson))
  /\ UNCHANGED <<req, modelToUse, calls, envelope>>
  /\ UNCHANGED <<parseVars, frontVars>>

\* request.json() yields null: reading body.image throws
JsonNull ==
  /\ spc = "json"
  /\ req.kind = "null"
  /\ Settle(catchError(TypeErrorNullBody))
  /\ UNCHANGED <<req, modelToUse, calls, envelope>>
  /\ UNCHANGED <<parseVars, frontVars>>

\* request.json() yields an object without an image: 400
RejectMissingImage ==
  /\ spc = "json"
  /\ req.kind = "object"
  /\ missingImage(req.body)
  /\ Settle([kind |-> "response", response |-> badRequest])
  /\ UNCHANGED <<req, modelToUse, calls, envelope>>
  /\ UNCHANGED <<parseVars, frontVars>>

\* request.json() yields an object with an image: the provider is chosen and
\* called, and POST awaits its answer
InvokeProvider ==
  /\ spc = "json"
  /\ req.kind = "object"
  /\ ~missingImage(req.body)
  /\ modelToUse' = resolveModel(req.body)
  /\ calls' = Append(calls,
                     IF providerFor(resolveModel(req.body)) = "GROQ"
                     THEN groqCall(req.body.image)
                     ELSE geminiCall(req.body.image))
  /\ spc' = "provider"
  /\ UNCHANGED <<req, envelope, responses, escaped>>
  /\ UNCHANGED <<parseVars, frontVars>>

Last(s) == s[Len(s)]

\* groq.chat.completions.create resolves with text content
GroqText ==
  /\ spc = "provider"
  /\ Last(calls).provider = "GROQ"
  /\ \E t \in Replies :
       /\ envelope' = [kind |-> "text", text |-> t]
       /\ Settle([kind |-> "response", response |-> okResponse(t, modelToUse)])
  /\ UNCHANGED <<req, modelToUse, calls>>
  /\ UNCHANGED <<parseVars, frontVars>>

\* groq resolves with message.content null: `content || ''`
GroqNullContent ==
  /\ spc = "provider"
  /\ Last(calls).provider = "GROQ"
  /\ envelope' = [kind |-> "null"]
  /\ Settle([kind |-> "response", response |-> okResponse(<<>>, modelToUse)])
  /\ UNCHANGED <<req, modelToUse, calls>>
  /\ UNCHANGED <<parseVars, frontVars>>

\* groq resolves with no choices: response.choices[0].message throws
GroqNoChoices ==
  /\ spc = "provider"
  /\ Last(calls).provider = "GROQ"
  /\ envelope' = [kind |-> "nochoices"]
  /\ Settle(catchError(TypeErrorNoChoices))
  /\ UNCHANGED <<req, modelToUse, calls>>
  /\ UNCHANGED <<parseVars, frontVars>>

\* model.generateContent resolves and result.response.text() returns
GeminiText ==
  /\ spc = "provider"
  /\ Last(calls).provider = "GEMINI"
  /\ \E t \in Replies :
       /\ envelope' = [kind |-> "text", text |-> t]
       /\ Settle([kind |-> "response", response |-> okResponse(t, modelToUse)])
  /\ UNCHANGED <<req, modelToUse, calls>>
  /\ UNCHANGED <<parseVars, frontVars>>

\* either SDK call rejects (network, authentication, non-success status), or
\* result.response.text() throws
ProviderRejected ==
  /\ spc = "provider"
  /\ envelope' = [kind |-> "rejected"]
  /\ Settle(catchError(ProviderError))
  /\ UNCHANGED <<req, modelToUse, calls>>
  /\ UNCHANGED <<parseVars, frontVars>>

Next ==
  \/ Receive
  \/ JsonRejected
  \/ JsonNull
  \/ RejectMissingImage
  \/ InvokeProvider
  \/ GroqText
  \/ GroqNullContent
  \/ GroqNoChoices
  \/ GeminiText
  \/ ProviderRejected

----------------------------------------------------------------------------
(* Home (page.tsx).  Each handler runs to completion on the event loop;    *)
(* the continuation of analyzeImage after its awaits, and the onloadend    *)
(* callback of a FileReader, are steps of their own.  A handler can be     *)
(* invoked when the element that carries it is rendered and enabled.       *)

\* data URLs the camera or a file can deliver
Images == {"img1", "img2"}

\* bodies of a 200 response, as the component stores them
ResultData(img) ==
  {[forImage |-> img, category |-> c.category, color |-> c.color] :
     c \in {[category |-> "recycle", color |-> "bg-emerald-500"],
            [category |-> "trash", color |-> "bg-slate-600"]}}

\* the branch of the JSX that shows the start panel (Camera, Upload, file input)
ShowsStartPanel == ~isUsingCamera /\ capturedImage = "null"

\* the branch that shows the captured image
ShowsImagePanel == ~isUsingCamera /\ capturedImage # "null"

FrontInit ==
  /\ capturedImage = "null"
  /\ isAnalyzing = FALSE
  /\ analysisResult = <<>>
  /\ isUsingCamera = FALSE
  /\ error = "null"
  /\ inflight = <<>>
  /\ reads = <<>>

activateCamera ==
  /\ ShowsStartPanel
  /\ isUsingCamera' = TRUE
  /\ capturedImage' = "null"
  /\ analysisResult' = <<>>
  /\ error' = "null"
  /\ UNCHANGED <<isAnalyzing, inflight, reads>>
  /\ UNCHANGED <<parseVars, serverVars>>

deactivateCamera ==
  /\ isUsingCamera
  /\ isUsingCamera' = FALSE
  /\ UNCHANGED <<capturedImage, isAnalyzing, analysisResult, error, inflight, reads>>
  /\ UNCHANGED <<parseVars, serverVars>>

\* getScreenshot() gives a data URL, or null while the camera is not ready
captureImage ==
  /\ isUsingCamera
  /\ \E imageSrc \in Images \cup {"null"} : capturedImage' = imageSrc
  /\ isUsingCamera' = FALSE
  /\ UNCHANGED <<isAnalyzing, analysisResult, error, inflight, reads>>
  /\ UNCHANGED <<parseVars, serverVars>>

\* a file is chosen: reader.readAsDataURL(file) starts
handleFileUpload ==
  /\ ShowsStartPanel
  /\ Len(reads) < MaxReads
  /\ \E file \in Images : reads' = Append(reads, file)
  /\ UNCHANGED <<capturedImage, isAnalyzing, analysisResult, isUsingCamera, error, inflight>>
  /\ UNCHANGED <<parseVars, serverVars>>

RemoveAt(s, k) == SubSeq(s, 1, k - 1) \o SubSeq(s, k + 1, Len(s))

\* reader.onloadend
onloadend ==
  /\ \E k \in 1..Len(reads) :
       /\ capturedImage' = reads[k]
       /\ reads' = RemoveAt(reads, k)
  /\ analysisResult' = <<>>
  /\ error' = "null"
  /\ UNCHANGED <<isAnalyzing, isUsingCamera, inflight>>
  /\ UNCHANGED <<parseVars, serverVars>>

\* analyzeImage up to its first await: the request for capturedImage leaves
analyzeImage ==
  /\ ShowsImagePanel
  /\ analysisResult = <<>>
  /\ ~isAnalyzing
  /\ capturedImage # "null"
  /\ isAnalyzing' = TRUE
  /\ error' = "null"
  /\ inflight' = Append(inflight, capturedImage)
  /\ UNCHANGED <<capturedImage, analysisResult, isUsingCamera, reads>>
  /\ UNCHANGED <<parseVars, serverVars>>

\* the request answers 200: setAnalysisResult(data), then finally
analyzeImageOk ==
  /\ inflight # <<>>
  /\ \E data \in ResultData(Head(inflight)) : analysisResult' = <<data>>
  /\ isAnalyzing' = FALSE
  /\ inflight' = Tail(inflight)
  /\ UNCHANGED <<capturedImage, isUsingCamera, error, reads>>
  /\ UNCHANGED <<parseVars, serverVars>>

\* fetch rejects, or the response is not ok: catch, then finally
analyzeImageFailed ==
  /\ inflight # <<>>
  /\ error' = "Failed to analyze the image. Please try again."
  /\ isAnalyzing' = FALSE
  /\ inflight' = Tail(inflight)
  /\ UNCHANGED <<capturedImage, analysisResult, isUsingCamera, reads>>
  /\ UNCHANGED <<parseVars, serverVars>>

\* "Take Another Photo" (image panel without a result) or "Scan Another Item"
resetApp ==
  /\ (ShowsImagePanel /\ analysisResult = <<>>) \/ analysisResult # <<>>
  /\ capturedImage' = "null"
  /\ analysisResult' = <<>>
  /\ error' = "null"
  /\ UNCHANGED <<isAnalyzing, isUsingCamera, inflight, reads>>
  /\ UNCHANGED <<parseVars, serverVars>>

FrontNext ==
  \/ activateCamera
  \/ deactivateCamera
  \/ captureImage
  \/ handleFileUpload
  \/ onloadend
  \/ analyzeImage
  \/ analyzeImageOk
  \/ analyzeImageFailed
  \/ resetApp

----------------------------------------------------------------------------
Init == ParseInit /\ ServerInit /\ FrontInit

Spec == Init /\ [][Next]_vars

ParseSpec == Init /\ [][ParseNext]_vars

FrontSpec == Init /\ [][FrontNext]_vars

----------------------------------------------------------------------------
(* Properties of the POST handler (specification Spec) *)

\* C1: a request whose JSON body has no image (property absent, or the empty
\* string) never reaches a provider, and is answered with status 400 and the
\* body {error: "No image data provided"}.
C1_MissingImageIs400 ==
  (req.kind = "object" /\ ("image" \notin req.body.has \/ req.body.image = <<>>)) =>
    /\ calls = <<>>
    /\ spc = "done" =>
         /\ responses = <<[status |-> 400, body |-> [error |-> "No image data provided"]]>>
         /\ escaped = <<>>

C1_Witness ==
  /\ spc = "done"
  /\ req.kind = "object"
  /\ req.body.has = {"image", "model"}
  /\ req.body.image = <<>>
  /\ req.body.model = "GEMINI"
  /\ Len(responses) = 1
  /\ responses[1].status = 400

\* C2: a request with an image and an explicit model that is neither GROQ nor
\* GEMINI reaches no provider and ends in an error response.
C2_UnsupportedModelFailsFast ==
  (/\ req.kind = "object"
   /\ "image" \in req.body.has /\ req.body.image # <<>>
   /\ "model" \in req.body.has /\ req.body.model \notin {"GROQ", "GEMINI"}) =>
    /\ calls = <<>>
    /\ spc = "done" => \A k \in 1..Len(responses) : responses[k].status # 200

\* C3: when the provider's envelope holds no text (null content, or the empty
\* string), the request ends in a 500 response and never in a 200 result.
C3_EmptyContentIsFailure ==
  (/\ spc = "done"
   /\ \/ envelope.kind = "null"
      \/ envelope.kind = "text" /\ envelope.text = <<>>) =>
    /\ Len(responses) = 1
    /\ responses[1].status = 500

\* C8: a request gets no response while it is handled and exactly one when it
\* is done; that response is a full result (200 with item, category,
\* explanation, color, model) or an error body (400 or 500 with error); every
\* exception (unreadable or null body, rejected provider call, malformed
\* envelope) gives 500 with error and message; no exception leaves POST.
C8_OneResponseNoEscape ==
  /\ escaped = <<>>
  /\ Len(responses) = (IF spc = "done" THEN 1 ELSE 0)
  /\ \A k \in 1..Len(responses) :
       \/ /\ responses[k].status = 200
          /\ DOMAIN responses[k].body = {"item", "category", "explanation", "color", "model"}
       \/ /\ responses[k].status \in {400, 500}
          /\ "error" \in DOMAIN responses[k].body
  /\ (/\ spc = "done"
      /\ \/ req.kind \in {"malformed", "null"}
         \/ envelope.kind \in {"rejected", "nochoices"}) =>
       /\ responses[1].status = 500
       /\ DOMAIN responses[1].body = {"error", "message"}

C8_Witness ==
  /\ spc = "done"
  /\ envelope.kind = "rejected"
  /\ Len(responses) = 1
  /\ responses[1].status = 500
  /\ responses[1].body.message = "provider request failed"

\* C9: in every 200 response the category is one of the three, and the colour
\* follows from it: recycle bg-emerald-500, compost bg-amber-700, trash
\* bg-slate-600.
C9_ColorFollowsCategory ==
  \A k \in 1..Len(responses) :
    responses[k].status = 200 =>
      LET b == responses[k].body
      IN /\ b.category \in {WordRecycle, WordCompost, WordTrash}
         /\ b.category = WordRecycle => b.color = "bg-emerald-500"
         /\ b.category = WordCompost => b.color = "bg-amber-700"
         /\ b.category = WordTrash => b.color = "bg-slate-600"

\* a compost result on the fallback path
C9_Witness ==
  /\ spc = "done"
  /\ envelope.kind = "text"
  /\ ~explanationMatch(envelope.text).found
  /\ Len(responses) = 1
  /\ responses[1].status = 200
  /\ responses[1].body.category = WordCompost
  /\ responses[1].body.color = "bg-amber-700"

----------------------------------------------------------------------------
(* Properties of parseAIResponse (specification ParseSpec) *)

\* start positions of a bracketed field with keyword kw
FieldHeads(s, kw) == {i \in 1..Len(s) : FieldHead(s, i, kw)}

\* positions of the "]" characters after position i
ClosesAfter(s, i) == {j \in i..Len(s) : s[j] = "]"}

\* the text of the field that starts at i, from after "KEYWORD:" to its "]"
FieldContent(s, i, kw) == SubSeq(s, AfterColon(s, i, kw), Min(ClosesAfter(s, i)) - 1)

\* the response holds a bracketed EXPLANATION field
HasExplanationField(s) ==
  \E i \in FieldHeads(s, KwExplanation) : ClosesAfter(s, i) # {}

\* the first EXPLANATION field is closed, holds text without brackets, and its
\* "]" ends the response or is followed by whitespace
WellFormedExplanation(s) ==
  /\ FieldHeads(s, KwExplanation) # {}
  /\ LET i == Min(FieldHeads(s, KwExplanation))
     IN /\ ClosesAfter(s, i) # {}
        /\ LET j == Min(ClosesAfter(s, i))
               content == FieldContent(s, i, KwExplanation)
           IN /\ trim(content) # <<>>
              /\ \A k \in 1..Len(content) : content[k] # "["
              /\ (j = Len(s) \/ IsSpace(s[j + 1]))

\* the first field with keyword kw is present and empty
EmptyField(s, kw) ==
  /\ FieldHeads(s, kw) # {}
  /\ LET p == ContentStart(s, Min(FieldHeads(s, kw)), kw)
     IN p <= Len(s) /\ s[p] = "]"

\* as EmptyField, and the "]" ends the response or is followed by whitespace
EmptyFieldAtBreak(s, kw) ==
  /\ EmptyField(s, kw)
  /\ LET p == ContentStart(s, Min(FieldHeads(s, kw)), kw)
     IN p = Len(s) \/ IsSpace(s[p + 1])

\* start positions of the valid tokens [CATEGORY: X]
CategoryTokens(s) == {i \in FieldHeads(s, KwCategory) : CategoryWordsAt(s, i) # {}}

\* the X of the token at i, in lower case
TokenValue(s, i) == CHOOSE w \in CategoryWordsAt(s, i) : TRUE

\* the keyword scan on its own
KeywordScan(s) ==
  IF includes(toLowerCase(s), WordRecycle) THEN WordRecycle
  ELSE IF includes(toLowerCase(s), WordCompost) THEN WordCompost
  ELSE WordTrash

\* C4: without a bracketed EXPLANATION field, explanation is the whole trimmed
\* response and category is what the keyword scan alone gives, whatever a
\* [CATEGORY: ...] field says.
C4_FallbackWithoutExplanation ==
  (parsed # <<>> /\ ~HasExplanationField(raw)) =>
    /\ parsed[1].explanation = trim(raw)
    /\ parsed[1].category = KeywordScan(raw)

\* a valid CATEGORY token whose value the scan overrides
C4_Witness ==
  /\ parsed # <<>>
  /\ ~HasExplanationField(raw)
  /\ CategoryTokens(raw) # {}
  /\ TokenValue(raw, Min(CategoryTokens(raw))) = WordTrash
  /\ parsed[1].category = WordRecycle

C6_SingleTokenDecides ==
  (parsed # <<>> /\ Cardinality(CategoryTokens(raw)) = 1) =>
    parsed[1].category = TokenValue(raw, Min(CategoryTokens(raw)))

\* C6 amended: with exactly one valid token [CATEGORY: X] and an EXPLANATION
\* field that matches with non-empty content, the category is X.
C6_SingleTokenDecidesWithExplanation ==
  (/\ parsed # <<>>
   /\ Cardinality(CategoryTokens(raw)) = 1
   /\ Truthy(explanationMatch(raw))) =>
    parsed[1].category = TokenValue(raw, Min(CategoryTokens(raw)))

\* the token says trash in mixed case, the explanation says "Recycle"
C6_Witness ==
  /\ parsed # <<>>
  /\ Cardinality(CategoryTokens(raw)) = 1
  /\ Truthy(explanationMatch(raw))
  /\ includes(toLowerCase(raw), WordRecycle)
  /\ categoryMatch(raw).group # WordTrash
  /\ parsed[1].category = WordTrash

\* C7 as stated: an empty ITEM field keeps the default item, and an empty
\* EXPLANATION field keeps the default explanation.
C7_EmptyFieldsKeepDefaults ==
  parsed # <<>> =>
    /\ EmptyField(raw, KwItem) => parsed[1].item = DefaultItem
    /\ EmptyField(raw, KwExplanation) => parsed[1].explanation = DefaultExplanation

\* C7 amended: an empty ITEM field keeps the default item; an empty
\* EXPLANATION field whose "]" ends the response or is followed by whitespace
\* counts as not found, so that the fallback path runs: explanation is the
\* whole trimmed response and category is what the keyword scan gives.
C7_EmptyItemDefaultEmptyExplanationFallback ==
  parsed # <<>> =>
    /\ EmptyField(raw, KwItem) => parsed[1].item = DefaultItem
    /\ EmptyFieldAtBreak(raw, KwExplanation) =>
         /\ parsed[1].explanation = trim(raw)
         /\ parsed[1].category = KeywordScan(raw)

C7_Witness ==
  /\ parsed # <<>>
  /\ EmptyField(raw, KwItem)
  /\ EmptyFieldAtBreak(raw, KwExplanation)
  /\ CategoryTokens(raw) # {}
  /\ parsed[1].item = DefaultItem
  /\ parsed[1].explanation = trim(raw)

----------------------------------------------------------------------------
(* Property of Home (specification FrontSpec) *)

\* C10: a result is held only while capturedImage is the image the result was
\* requested for.
C10_ResultBelongsToImage ==
  analysisResult # <<>> => capturedImage = analysisResult[1].forImage

====
